---- MODULE Spec2Model ----
(***************************************************************************)
(* The emotion-art generator of src/app.py: the lexicon scorer             *)
(* score_emotions, the art synthesizer generate_art and the Streamlit      *)
(* script that wires the two to the page's widgets.                        *)
(*                                                                         *)
(* Texts are TLA+ strings, handled character by character.  A Python float *)
(* that the code obtains by dividing integers is kept as the exact reduced *)
(* fraction <<numerator, denominator>>.  The canvas is kept as the list of *)
(* draw calls made on it, grouped by the loop that issued them.            *)
(***************************************************************************)
EXTENDS Integers, Sequences, FiniteSets, TLC

VARIABLES
    mode,      \* the "Input Mode" radio
    text,      \* the content of the text area on screen
    seed,      \* the "Random Seed" number input
    density,   \* the "Shape Density" slider
    blur,      \* the "Gaussian Blur" slider
    w, h,      \* the canvas size sliders
    rng,       \* the state of the process-wide generator of module random
    page       \* what the last run of the script put under the button

vars == <<mode, text, seed, density, blur, w, h, rng, page>>

None == "None"

(***************************************************************************)
(* Bounds of the model.                                                    *)
(***************************************************************************)
\* Words per text when score_emotions is checked on its own.
MaxLen == 3
\* Seeds above the default one the user can enter.
SeedSpan == 1
\* Number of positions of the abstract random stream.
RngPeriod == 3
\* Number of values one draw of the abstract random stream can take.
RandMax == 8
\* Largest denominator of the fractions the shape count is compared on.
MaxDen == 5

(***************************************************************************)
(* Numbers                                                                 *)
(***************************************************************************)
Max(a, b) == IF a >= b THEN a ELSE b

Min(a, b) == IF a <= b THEN a ELSE b

RECURSIVE Gcd(_, _)
Gcd(a, b) == IF b = 0 THEN a ELSE Gcd(b, a % b)

\* The float n/d (n >= 0, d > 0) as a reduced fraction; 0.0 is <<0, 1>>.
Rat(n, d) == LET g == Gcd(n, d) IN <<n \div g, d \div g>>

Zero == <<0, 1>>

ZeroDivisionError == "ZeroDivisionError"

\* a / b on floats; Python raises ZeroDivisionError for b = 0.
RatDiv(a, b) ==
    IF b[1] = 0 THEN ZeroDivisionError ELSE Rat(a[1] * b[2], a[2] * b[1])

RatAdd(a, b) == Rat(a[1] * b[2] + b[1] * a[2], a[2] * b[2])

RatLess(a, b) == a[1] * b[2] < b[1] * a[2]

\* int(k * f) for an integer k >= 0 and a float f >= 0: truncation.
\* The product is taken exactly here; Python takes it in binary floating
\* point, whose rounding can move a product that is exactly an integer to
\* just below it.
TruncMul(k, f) == (k * f[1]) \div f[2]

(***************************************************************************)
(* Strings                                                                 *)
(***************************************************************************)
Char(s, i) == SubSeq(s, i, i)

\* str.split() separators (the ASCII ones).
Whitespace == {" ", "\t", "\n", "\r", "\f"}

ToLower ==
    [ A |-> "a", B |-> "b", C |-> "c", D |-> "d", E |-> "e", F |-> "f",
      G |-> "g", H |-> "h", I |-> "i", J |-> "j", K |-> "k", L |-> "l",
      M |-> "m", N |-> "n", O |-> "o", P |-> "p", Q |-> "q", R |-> "r",
      S |-> "s", T |-> "t", U |-> "u", V |-> "v", W |-> "w", X |-> "x",
      Y |-> "y", Z |-> "z" ]

LowerChar(c) == IF c \in DOMAIN ToLower THEN ToLower[c] ELSE c

\* str.lower()
RECURSIVE Lower(_)
Lower(s) == IF s = "" THEN "" ELSE LowerChar(Char(s, 1)) \o Lower(Tail(s))

\* str.lstrip(chars), str.rstrip(chars): chars is the set of characters
\* removed.
RECURSIVE LStrip(_, _)
LStrip(s, chars) ==
    IF s # "" /\ Char(s, 1) \in chars THEN LStrip(Tail(s), chars) ELSE s

RECURSIVE RStrip(_, _)
RStrip(s, chars) ==
    IF s # "" /\ Char(s, Len(s)) \in chars
    THEN RStrip(SubSeq(s, 1, Len(s) - 1), chars)
    ELSE s

\* str.strip(chars)
Strip(s, chars) == RStrip(LStrip(s, chars), chars)

IsSpace(s, i) == Char(s, i) \in Whitespace

\* str.split(): the maximal runs of non-whitespace characters, in order.
\* The scan resumes at index i: it skips whitespace to the start a of the
\* next run, reads the run to its end b, and goes on after it.
RECURSIVE SplitFrom(_, _)
SplitFrom(s, i) ==
    IF \A k \in i..Len(s) : IsSpace(s, k)
    THEN <<>>
    ELSE LET a == CHOOSE k \in i..Len(s) :
                      /\ ~IsSpace(s, k)
                      /\ \A j \in i..(k - 1) : IsSpace(s, j)
             b == CHOOSE k \in a..Len(s) :
                      /\ \A j \in a..k : ~IsSpace(s, j)
                      /\ k = Len(s) \/ IsSpace(s, k + 1)
         IN  <<SubSeq(s, a, b)>> \o SplitFrom(s, b + 1)

Split(s) == SplitFrom(s, 1)

(***************************************************************************)
(* Static tables                                                           *)
(***************************************************************************)
EMOTION_LEXICON ==
    [ happy      |-> <<"joy", "trust">>,
      joy        |-> <<"joy">>,
      love       |-> <<"joy", "trust">>,
      smile      |-> <<"joy">>,
      delight    |-> <<"joy">>,
      peace      |-> <<"joy", "trust">>,
      confidence |-> <<"trust", "joy">>,
      proud      |-> <<"joy">>,
      grateful   |-> <<"joy", "trust">>,
      excited    |-> <<"joy", "surprise">>,
      sad        |-> <<"sadness">>,
      lonely     |-> <<"sadness">>,
      cry        |-> <<"sadness">>,
      loss       |-> <<"sadness">>,
      regret     |-> <<"sadness">>,
      tired      |-> <<"sadness">>,
      hurt       |-> <<"sadness">>,
      blue       |-> <<"sadness">>,
      angry      |-> <<"anger">>,
      rage       |-> <<"anger">>,
      hate       |-> <<"anger">>,
      annoyed    |-> <<"anger">>,
      furious    |-> <<"anger">>,
      upset      |-> <<"anger", "sadness">>,
      fear       |-> <<"fear">>,
      afraid     |-> <<"fear">>,
      worry      |-> <<"fear">>,
      anxious    |-> <<"fear">>,
      scared     |-> <<"fear">>,
      panic      |-> <<"fear">>,
      surprise   |-> <<"surprise">>,
      wow        |-> <<"surprise", "joy">>,
      shocked    |-> <<"surprise", "fear">>,
      unexpected |-> <<"surprise">>,
      trust      |-> <<"trust">>,
      reliable   |-> <<"trust">>,
      honest     |-> <<"trust">>,
      secure     |-> <<"trust">>,
      safe       |-> <<"trust">>,
      faith      |-> <<"trust">>,
      disgust    |-> <<"disgust">>,
      gross      |-> <<"disgust">>,
      nasty      |-> <<"disgust">>,
      dirty      |-> <<"disgust">>,
      toxic      |-> <<"disgust", "anger">> ]

PALETTES ==
    [ joy      |-> << <<255, 214, 102>>, <<255, 159, 28>>, <<255, 111, 105>> >>,
      sadness  |-> << <<102, 153, 255>>, <<64, 105, 225>>, <<35, 62, 140>> >>,
      anger    |-> << <<255, 71, 87>>, <<255, 99, 72>>, <<199, 0, 57>> >>,
      fear     |-> << <<155, 89, 182>>, <<52, 31, 151>>, <<41, 128, 185>> >>,
      surprise |-> << <<255, 221, 89>>, <<255, 195, 0>>, <<255, 87, 51>> >>,
      trust    |-> << <<46, 204, 113>>, <<39, 174, 96>>, <<23, 165, 137>> >>,
      disgust  |-> << <<143, 188, 143>>, <<85, 107, 47>>, <<0, 128, 0>> >>,
      neutral  |-> << <<220, 220, 220>>, <<200, 200, 200>>, <<180, 180, 180>> >> ]

EMOTIONS == <<"joy", "sadness", "anger", "fear", "surprise", "trust", "disgust">>

EmotionSet == {EMOTIONS[i] : i \in 1..Len(EMOTIONS)}

(***************************************************************************)
(* score_emotions                                                          *)
(***************************************************************************)
\* The characters str.strip removes from both ends of a token.
StripChars == {".", ",", "!", "?", ";", ":", "(", ")", "[", "]", "\"", "'"}

\* Tokenize with the lowercasing left out.
TokenizeNoLower(txt) ==
    LET raw == Split(txt)
    IN  [i \in 1..Len(raw) |-> Strip(raw[i], StripChars)]

\* tokens = [t.strip(...).lower() for t in text.split()]
Tokenize(txt) ==
    LET raw == Split(txt)
    IN  [i \in 1..Len(raw) |-> Lower(Strip(raw[i], StripChars))]

\* counts[e] on a Counter: a key never counted reads 0.
CounterGet(counts, e) == IF e \in DOMAIN counts THEN counts[e] ELSE 0

\* CounterInc storing 1 instead of adding 1.
CounterIncReset(counts, e) ==
    IF e \in DOMAIN counts
    THEN [counts EXCEPT ![e] = 1]
    ELSE (e :> 1) @@ counts

\* counts[e] += 1
CounterInc(counts, e) ==
    IF e \in DOMAIN counts
    THEN [counts EXCEPT ![e] = @ + 1]
    ELSE (e :> 1) @@ counts

\* for e in EMOTION_LEXICON[tok]: counts[e] += 1; total_hits += 1
RECURSIVE CountLabels(_, _)
CountLabels(labels, st) ==
    IF labels = <<>>
    THEN st
    ELSE CountLabels(Tail(labels),
                     [counts     |-> CounterInc(st.counts, Head(labels)),
                      total_hits |-> st.total_hits + 1])

\* for tok in tokens: if tok in EMOTION_LEXICON: ...
RECURSIVE CountTokens(_, _)
CountTokens(tokens, st) ==
    IF tokens = <<>>
    THEN st
    ELSE CountTokens(Tail(tokens),
                     IF Head(tokens) \in DOMAIN EMOTION_LEXICON
                     THEN CountLabels(EMOTION_LEXICON[Head(tokens)], st)
                     ELSE st)

\* ScoreDivisor without the guard against 0.
ScoreDivisorRaw(total_hits) == total_hits

\* The divisor of every score.
ScoreDivisor(total_hits) == Max(1, total_hits)

\* The (scores, total_hits) pair score_emotions returns, or the exception it
\* raises.
score_emotions(txt) ==
    LET st  == CountTokens(Tokenize(txt), [counts |-> <<>>, total_hits |-> 0])
        den == ScoreDivisor(st.total_hits)
    IN  IF den = 0
        THEN [raised |-> ZeroDivisionError]
        ELSE [raised     |-> None,
              scores     |-> IF st.total_hits = 0
                             THEN [e \in EmotionSet |-> Zero]
                             ELSE [e \in EmotionSet |->
                                      Rat(CounterGet(st.counts, e), den)],
              total_hits |-> st.total_hits]

(***************************************************************************)
(* The generator of module random.  Its state is kept as the seed it was   *)
(* last given and the position reached in that seed's stream; the stream   *)
(* of a seed is a fixed sequence of values in 0..RandMax-1 that repeats    *)
(* every RngPeriod draws.                                                  *)
(***************************************************************************)
\* random.seed(s)
RandomSeed(s) == [key |-> s, pos |-> 0]

\* The value of the k-th draw (k = 0, 1, ...) made from state r.
RandomValue(r, k) == (r.key * 3 + ((r.pos + k) % RngPeriod) * 5 + 1) % RandMax

\* The state after n draws.
Advance(r, n) == [r EXCEPT !.pos = (@ + n) % RngPeriod]

\* random.randint(a, b), as the k-th draw
randint(r, k, a, b) == a + (RandomValue(r, k) % (b - a + 1))

\* random.random(), as the k-th draw: a float in [0, 1)
random(r, k) == Rat(RandomValue(r, k), RandMax)

RatSub(a, b) == Rat(a[1] * b[2] - b[1] * a[2], a[2] * b[2])

RatMul(a, b) == Rat(a[1] * b[1], a[2] * b[2])

\* int(f) for a float f >= 0
Trunc(f) == f[1] \div f[2]

\* random.uniform(a, b), as the k-th draw: a + (b - a) * random()
uniform(r, k, a, b) == RatAdd(a, RatMul(RatSub(b, a), random(r, k)))

(***************************************************************************)
(* generate_art                                                            *)
(***************************************************************************)
lerp(a, b, t) == RatAdd(<<a, 1>>, RatMul(<<b - a, 1>>, t))

pick_color(emotion, intensity) ==
    LET palette == IF emotion \in DOMAIN PALETTES
                   THEN PALETTES[emotion]
                   ELSE PALETTES["neutral"]
    IN  IF RatLess(intensity, <<33, 100>>) THEN palette[1]
        ELSE IF RatLess(intensity, <<66, 100>>) THEN palette[2]
        ELSE palette[3]

\* Reseed with the call to random.seed left out.
ReseedSkipped(r, s) == r

\* random.seed(seed) at the head of generate_art: the state it leaves,
\* given the state r the generator was in.
Reseed(r, s) == RandomSeed(s)

\* sum(emotion_scores.values())
RECURSIVE SumValues(_, _)
SumValues(m, keys) ==
    IF keys = {}
    THEN Zero
    ELSE LET k == CHOOSE x \in keys : TRUE
         IN  RatAdd(m[k], SumValues(m, keys \ {k}))

\* IsNeutral with the neutral branch never taken.
IsNeutralNever(total) == FALSE

\* The test that selects the neutral composition.
IsNeutral(total) == total = Zero

\* NeutralCount with the count fixed.
NeutralCountFixed(dens) == 80

\* The number of circles of the neutral composition.
NeutralCount(dens) == Max(80, dens \div 4)

\* The draws one circle of the neutral composition takes from the
\* generator: x, y, r and the colour index.
NeutralDraws == 4

\* The draw call of one circle of the neutral composition, made with the
\* generator in state r.
NeutralShape(r, width, height) ==
    LET x   == randint(r, 0, 0, width)
        y   == randint(r, 1, 0, height)
        rad == randint(r, 2, 6, 40)
        col == PALETTES["neutral"][randint(r, 3, 0, 2) + 1] \o <<110>>
    IN  [op   |-> "ellipse",
         box  |-> <<x - rad, y - rad, x + rad, y + rad>>,
         fill |-> col]

\* norm[e]
NormFraction(emotion_scores, e, total) ==
    IF RatLess(Zero, total) THEN RatDiv(emotion_scores[e], total) ELSE Zero

\* ShapeCount weighting by the complement of the fraction.
ShapeCountInverted(dens, frac) == Max(1, TruncMul(dens, RatSub(<<1, 1>>, frac)))

\* ShapeCount rounding to the nearest integer instead of truncating.
ShapeCountRounded(dens, frac) ==
    Max(1, (2 * dens * frac[1] + frac[2]) \div (2 * frac[2]))

\* count, the number of shapes of an emotion of fraction frac
ShapeCount(dens, frac) == Max(1, TruncMul(dens, frac))

\* ShapeKind with fear missing from the strokes.
ShapeKindNoFear(e) ==
    IF e \in {"joy", "trust", "surprise"} THEN "ellipse"
    ELSE IF e \in {"anger", "disgust"} THEN "polygon"
    ELSE IF e \in {"sadness"} THEN "line"
    ELSE "none"

\* The branch of the shape chain emotion e takes.
ShapeKind(e) ==
    IF e \in {"joy", "trust", "surprise"} THEN "ellipse"
    ELSE IF e \in {"anger", "disgust"} THEN "polygon"
    ELSE IF e \in {"sadness", "fear"} THEN "line"
    ELSE "none"

\* The draws one pass of the inner loop takes from the generator: cx, cy,
\* the size factor and the colour intensity, and x2, y2 for a stroke.
DrawsPerShape(e) == IF ShapeKind(e) = "line" THEN 6 ELSE 4

\* The draw call of one pass of the inner loop for emotion e, made with the
\* generator in state r (none when no branch takes e).  A polygon is kept
\* as its centre, its radius and the angles of its points around the
\* centre, in tenths of a radian.
EmotionShape(e, frac, r, width, height) ==
    LET cx    == randint(r, 0, 0, width)
        cy    == randint(r, 1, 0, height)
        size  == Trunc(RatMul(lerp(8, 120, frac), uniform(r, 2, <<3, 5>>, <<7, 5>>)))
        color == pick_color(e, random(r, 3))
        alpha == Trunc(lerp(60, 185, frac))
        kind  == ShapeKind(e)
    IN  IF kind = "ellipse"
        THEN [op   |-> "ellipse",
              box  |-> <<cx - size, cy - size, cx + size, cy + size>>,
              fill |-> color \o <<alpha>>]
        ELSE IF kind = "polygon"
        THEN [op     |-> "polygon",
              centre |-> <<cx, cy>>,
              radius |-> size,
              angles |-> <<0, 21, 42>>,
              fill   |-> color \o <<alpha>>]
        ELSE IF kind = "line"
        THEN [op    |-> "line",
              xy    |-> <<cx, cy,
                          cx + randint(r, 4, -size * 2, size * 2),
                          cy + randint(r, 5, -size * 2, size * 2)>>,
              fill  |-> color \o <<alpha>>,
              width |-> Max(1, size \div 10)]
        ELSE [op |-> "none"]

\* The outer loop from the i-th emotion on, with the generator in state r:
\* one layer per emotion, and the state the generator is left in.  A layer
\* stands for the count consecutive passes of the inner loop; pass j runs
\* with the generator advanced by the draws of the passes before it.
RECURSIVE DrawEmotions(_, _, _, _, _, _)
DrawEmotions(i, r, norm, dens, width, height) ==
    IF i > Len(EMOTIONS)
    THEN [layers |-> <<>>, rng |-> r]
    ELSE LET e     == EMOTIONS[i]
             count == ShapeCount(dens, norm[e])
             rest  == DrawEmotions(i + 1, Advance(r, count * DrawsPerShape(e)),
                                   norm, dens, width, height)
         IN  [layers |-> <<[loop    |-> "emotion",
                            emotion |-> e,
                            frac    |-> norm[e],
                            count   |-> count,
                            rng     |-> r]>> \o rest.layers,
              rng    |-> rest.rng]

\* img.filter(GaussianBlur(radius=blur)) if blur > 0 else img
Filtered(canvas, radius) ==
    [canvas EXCEPT !.blurred = IF radius > 0 THEN radius ELSE None]

\* generate_art called with the process-wide generator in state r: the
\* image returned and the state the generator is left in.
generate_art(width, height, emotion_scores, seed_, dens, blur_, r) ==
    LET r0     == Reseed(r, seed_)
        canvas == [size       |-> <<width, height>>,
                   background |-> <<250, 250, 250>>,
                   layers     |-> <<>>,
                   blurred    |-> None]
        total  == SumValues(emotion_scores, DOMAIN emotion_scores)
    IN  IF IsNeutral(total)
        THEN LET n == NeutralCount(dens)
             IN  [img |-> Filtered([canvas EXCEPT !.layers =
                                      <<[loop    |-> "neutral",
                                         emotion |-> "neutral",
                                         frac    |-> Zero,
                                         count   |-> n,
                                         rng     |-> r0]>>], blur_),
                  rng |-> Advance(r0, n * NeutralDraws)]
        ELSE LET norm == [e \in EmotionSet |->
                             NormFraction(emotion_scores, e, total)]
                 d    == DrawEmotions(1, r0, norm, dens, width, height)
             IN  [img |-> Filtered([canvas EXCEPT !.layers = d.layers], blur_),
                  rng |-> d.rng]

\* The draw call of pass j of a layer of an image: the pass runs with the
\* generator advanced by the draws of the passes before it.
ShapeOf(image, layer, j) ==
    IF layer.loop = "neutral"
    THEN NeutralShape(Advance(layer.rng, (j - 1) * NeutralDraws),
                      image.size[1], image.size[2])
    ELSE EmotionShape(layer.emotion, layer.frac,
                      Advance(layer.rng, (j - 1) * DrawsPerShape(layer.emotion)),
                      image.size[1], image.size[2])

(***************************************************************************)
(* The page: widgets and their ranges                                      *)
(***************************************************************************)
SeedDefault == 42

DensityMin == 100

DensityMax == 1500

DensityStep == 50

DensityDefault == 450

BlurMin == 0

BlurMax == 10

BlurDefault == 1

WidthMin == 640

WidthDefault == 1200

HeightMin == 480

HeightDefault == 800

TypeMode == "Type / Paste Text"

DemoMode == "Demo Text"

demo_text ==
    "We feel happy and excited to start a new creative journey. "
    \o "Sometimes we are anxious and worried about results, but we trust the process "
    \o "and keep going with confidence and love. Wow, this is surprising and delightful!"

\* The value a text area shows when its mode is selected.
DefaultText(m) == IF m = DemoMode THEN demo_text ELSE ""

\* The values the widgets are given.
Seeds == SeedDefault..(SeedDefault + SeedSpan)

Densities ==
    {DensityMin + k * DensityStep : k \in 0..((DensityMax - DensityMin) \div DensityStep)}

Blurs == {BlurMin, BlurDefault, BlurMax}

Widths == {WidthMin, WidthDefault}

Heights == {HeightMin, HeightDefault}

\* The slider positions tried when the page is driven event by event.
DensitySamples == {DensityMin, DensityDefault, DensityMax}

\* The texts typed or pasted into the text area.
TextSamples ==
    {"", "the quiet sea.", "Joy!", "happy sad", "joy joy sad",
     "happy happy sad", "Upset, (happy) HAPPY\nhappy",
     "toxic shocked wow", "rage rage rage fear", demo_text}

RngStates == [key : Seeds, pos : 0..(RngPeriod - 1)]

(***************************************************************************)
(* The script.  Every widget event runs it from the top; the block under   *)
(* the button runs, and its outputs are on screen, only in the run the     *)
(* button's click causes.                                                  *)
(***************************************************************************)
\* The page of a run in which the button was not clicked.
Blank == [clicked |-> FALSE]

Init ==
    /\ mode = TypeMode
    /\ text = DefaultText(TypeMode)
    /\ seed = SeedDefault
    /\ density = DensityDefault
    /\ blur = BlurDefault
    /\ w = WidthDefault
    /\ h = HeightDefault
    /\ rng \in RngStates
    /\ page = Blank

\* A run of the script in which the button was not clicked.
Rerun ==
    /\ page' = Blank
    /\ rng' = rng

SelectMode ==
    \E m \in {TypeMode, DemoMode} :
        /\ m # mode
        /\ mode' = m
        /\ text' = DefaultText(m)
        /\ Rerun
        /\ UNCHANGED <<seed, density, blur, w, h>>

EditText ==
    \E t \in TextSamples :
        /\ t # text
        /\ text' = t
        /\ Rerun
        /\ UNCHANGED <<mode, seed, density, blur, w, h>>

SetSeed ==
    \E s \in Seeds :
        /\ s # seed
        /\ seed' = s
        /\ Rerun
        /\ UNCHANGED <<mode, text, density, blur, w, h>>

SetDensity ==
    \E d \in DensitySamples :
        /\ d # density
        /\ density' = d
        /\ Rerun
        /\ UNCHANGED <<mode, text, seed, blur, w, h>>

SetBlur ==
    \E b \in Blurs :
        /\ b # blur
        /\ blur' = b
        /\ Rerun
        /\ UNCHANGED <<mode, text, seed, density, w, h>>

SetWidth ==
    \E x \in Widths :
        /\ x # w
        /\ w' = x
        /\ Rerun
        /\ UNCHANGED <<mode, text, seed, density, blur, h>>

SetHeight ==
    \E y \in Heights :
        /\ y # h
        /\ h' = y
        /\ Rerun
        /\ UNCHANGED <<mode, text, seed, density, blur, w>>

\* if st.button("Generate Art"): ...
ClickGenerate ==
    \E s \in {score_emotions(text)} :
        /\ IF s.raised # None
           THEN /\ page' = [clicked |-> TRUE, raised |-> s.raised]
                /\ rng' = rng
           ELSE \E g \in {generate_art(w, h, s.scores, seed, density, blur, rng)} :
                    /\ page' = [clicked |-> TRUE,
                                raised  |-> None,
                                scores  |-> s.scores,
                                hits    |-> s.total_hits,
                                img     |-> g.img]
                    /\ rng' = g.rng
        /\ UNCHANGED <<mode, text, seed, density, blur, w, h>>

Next ==
    \/ SelectMode
    \/ EditText
    \/ SetSeed
    \/ SetDensity
    \/ SetBlur
    \/ SetWidth
    \/ SetHeight
    \/ ClickGenerate

Spec == Init /\ [][Next]_vars

(***************************************************************************)
(* generate_art on its own: the button is clicked, again and again, on a   *)
(* page whose widgets hold any of their values.                            *)
(***************************************************************************)
InitArt ==
    /\ mode = TypeMode
    /\ text \in TextSamples
    /\ seed \in Seeds
    /\ density \in Densities
    /\ blur \in {BlurMin, BlurDefault}
    /\ w \in Widths
    /\ h = HeightDefault
    /\ rng \in RngStates
    /\ page = Blank

NextArt == ClickGenerate

SpecArt == InitArt /\ [][NextArt]_vars

(***************************************************************************)
(* score_emotions on its own: the button is clicked on a page whose text   *)
(* area holds any text of up to MaxLen words separated by single spaces.   *)
(***************************************************************************)
RawWords ==
    {"happy", "Happy!", "sad", "(upset).", "hap.py", "sad-", "...", "wow\t", ""}

RECURSIVE Join(_)
Join(ws) ==
    IF ws = <<>> THEN ""
    ELSE IF Len(ws) = 1 THEN ws[1]
    ELSE ws[1] \o " " \o Join(Tail(ws))

Texts == {Join(ws) : ws \in UNION {[1..n -> RawWords] : n \in 0..MaxLen}}

InitScore ==
    /\ mode = TypeMode
    /\ text \in Texts
    /\ seed = SeedDefault
    /\ density = DensityDefault
    /\ blur = BlurDefault
    /\ w = WidthDefault
    /\ h = HeightDefault
    /\ rng = RandomSeed(SeedDefault)
    /\ page = Blank

NextScore == ClickGenerate

SpecScore == InitScore /\ [][NextScore]_vars

(***************************************************************************)
(* What the properties below speak of                                      *)
(***************************************************************************)
\* The words of a text: the index pairs <<a, b>> of its maximal runs of
\* non-whitespace characters.
Runs(txt) ==
    LET n      == Len(txt)
        starts == {a \in 1..n : ~IsSpace(txt, a) /\ (a = 1 \/ IsSpace(txt, a - 1))}
        EndOf(a) == CHOOSE b \in a..n :
                        /\ \A k \in a..b : ~IsSpace(txt, k)
                        /\ b = n \/ IsSpace(txt, b + 1)
    IN  {<<a, EndOf(a)>> : a \in starts}

\* The lexicon keys that the word txt[a..b] is, once rid of the punctuation
\* around it and lowercased (at most one key; none for a word that is all
\* punctuation).
WordKeys(txt, a, b) ==
    LET core == {i \in a..b : Char(txt, i) \notin StripChars}
    IN  IF core = {}
        THEN {}
        ELSE LET lo == CHOOSE i \in core : \A j \in core : i <= j
                 hi == CHOOSE i \in core : \A j \in core : i >= j
             IN  {key \in DOMAIN EMOTION_LEXICON :
                     /\ Len(key) = hi - lo + 1
                     /\ \A i \in 1..Len(key) :
                            LowerChar(Char(txt, lo + i - 1)) = Char(key, i)}

\* The occurrences of lexicon words in a text: <<word, key>> pairs.
Occurrences(txt) ==
    UNION {{<<r, key>> : key \in WordKeys(txt, r[1], r[2])} : r \in Runs(txt)}

\* The hits of label e in a text: one per occurrence of a word and listing
\* of e under it.
HitsOf(occ, e) ==
    Cardinality({q \in occ \X (1..2) :
                    /\ q[2] <= Len(EMOTION_LEXICON[q[1][2]])
                    /\ EMOTION_LEXICON[q[1][2]][q[2]] = e})

\* All the labels the lexicon lists.
LexiconLabels ==
    UNION {{EMOTION_LEXICON[k][i] : i \in 1..Len(EMOTION_LEXICON[k])} :
              k \in DOMAIN EMOTION_LEXICON}

RECURSIVE SumOver(_, _)
SumOver(f, S) ==
    IF S = {} THEN 0
    ELSE LET x == CHOOSE y \in S : TRUE IN f[x] + SumOver(f, S \ {x})

\* The block under the button ran to its end.
Shown == page.clicked /\ page.raised = None

AllZero == [e \in EmotionSet |-> Zero]

\* C1: score_emotions splits on whitespace, strips the surrounding
\* punctuation and lowercases each word; every occurrence of a lexicon word
\* adds one hit to each label listed for it and one to total_hits per label;
\* with total_hits > 0 each score is the label's hits over total_hits
\* ("happy happy sad": total_hits 5, joy 2/5, trust 2/5, sadness 1/5).
Thm_C1 ==
    page.clicked =>
        LET occ == Occurrences(text)
            n   == [e \in LexiconLabels |-> HitsOf(occ, e)]
        IN  /\ Shown
            /\ page.hits = SumOver(n, LexiconLabels)
            /\ page.hits > 0 =>
                   \A e \in EmotionSet :
                       /\ page.scores[e][1] * page.hits = page.scores[e][2] * n[e]
                       /\ page.scores[e][2] > 0
            /\ text = "happy happy sad" =>
                   /\ page.hits = 5
                   /\ page.scores = [e \in EmotionSet |->
                                        CASE e \in {"joy", "trust"} -> <<2, 5>>
                                          [] e = "sadness" -> <<1, 5>>
                                          [] OTHER -> <<0, 1>>]

Wit_C1 == Shown /\ text = "Happy! (upset). sad" /\ page.hits = 5

\* C2: for a text none of whose words is a lexicon word, the empty text
\* included, score_emotions returns 0.0 for all 7 emotions and
\* total_hits = 0, and raises no ZeroDivisionError.
Thm_C2 ==
    (page.clicked /\ Occurrences(text) = {}) =>
        /\ Shown
        /\ page.scores = AllZero
        /\ page.hits = 0

Wit_C2 == Shown /\ page.scores = AllZero /\ page.hits = 0 /\ text = "hap.py ... sad-"

\* C3: with at least one hit, the 7 scores lie in [0, 1] and sum to 1: the
\* hits of the 7 labels of EMOTIONS add up to total_hits, no lexicon entry
\* listing a label outside EMOTIONS.
Thm_C3 ==
    (page.clicked /\ Occurrences(text) # {}) =>
        LET occ == Occurrences(text)
            n   == [e \in EmotionSet |-> HitsOf(occ, e)]
        IN  /\ Shown
            /\ page.hits > 0
            /\ \A e \in EmotionSet :
                   /\ 0 <= page.scores[e][1]
                   /\ page.scores[e][1] <= page.scores[e][2]
            /\ SumValues(page.scores, EmotionSet) = <<1, 1>>
            /\ SumOver(n, EmotionSet) = page.hits
            /\ LexiconLabels \subseteq EmotionSet

Wit_C3 == Shown /\ text = "wow\t happy sad" /\ page.hits = 5

Layers == page.img.layers

\* The passes of a layer that differ: pass j + RngPeriod draws what pass j
\* drew, the stream repeating every RngPeriod draws.
DistinctPasses(layer) == 1..Min(layer.count, RngPeriod)

\* C4: called with scores that are all zero, generate_art takes the neutral
\* path only: it draws circles of the neutral palette, does not enter the
\* loop over the emotions, does not divide by the zero total, and returns
\* an image.
Thm_C4 ==
    (page.clicked /\ Occurrences(text) = {}) =>
        /\ Shown
        /\ page.scores = AllZero
        /\ Len(Layers) = 1
        /\ \A i \in 1..Len(Layers) :
               /\ Layers[i].loop = "neutral"
               /\ Layers[i].count >= 1
               /\ \A j \in DistinctPasses(Layers[i]) :
                      LET c == ShapeOf(page.img, Layers[i], j)
                      IN  /\ c.op = "ellipse"
                          /\ \E k \in 1..3 : c.fill = PALETTES["neutral"][k] \o <<110>>

Wit_C4 ==
    /\ Shown
    /\ text = "the quiet sea."
    /\ page.hits = 0
    /\ Layers[1].loop = "neutral"

\* C5: the image of a call depends on the call's arguments alone (width,
\* height, scores, seed, density, blur): whatever state earlier calls left
\* the generator in, the same arguments give the same image, the call
\* seeding the generator before it draws.
Thm_C5 ==
    Shown =>
        \A r \in RngStates :
            generate_art(w, h, page.scores, seed, density, blur, r).img = page.img

Wit_C5 ==
    /\ Shown
    /\ page.hits > 0
    /\ seed = SeedDefault + 1
    /\ density = DensityMax
    /\ w = WidthMin

\* The fractions the shape count is compared on.
FractionSamples ==
    {Rat(q[1], q[2]) : q \in {p \in (0..MaxDen) \X (1..MaxDen) : p[1] <= p[2]}}

\* C6: at a given density the number of shapes of an emotion is monotone
\* non-decreasing in the emotion's fraction: f1 > f2 gives at least as many
\* shapes for f1 as for f2.
Thm_C6 ==
    (Shown /\ page.hits > 0) =>
        /\ \A i, k \in 1..Len(Layers) :
               RatLess(Layers[k].frac, Layers[i].frac) =>
                   Layers[i].count >= Layers[k].count
        /\ \A f1, f2 \in FractionSamples :
               RatLess(f2, f1) => ShapeCount(density, f1) >= ShapeCount(density, f2)

Wit_C6 ==
    /\ Shown
    /\ text = "joy joy sad"
    /\ density = DensityMin
    /\ Layers[1].count = 66
    /\ Layers[2].count = 33

\* C7: in the non-neutral path shapes are drawn only for the emotions of
\* nonzero fraction: an emotion of score 0 gets no shape.
Cex_C7 ==
    (Shown /\ page.hits > 0) =>
        \A i \in 1..Len(Layers) :
            Layers[i].frac = Zero => Layers[i].count = 0

\* The fraction the call derives for emotion e from the scores on screen.
FractionOf(e) ==
    RatDiv(page.scores[e], SumValues(page.scores, EmotionSet))

\* C8, with the count the code computes: in the non-neutral path, at every density of the
\* slider, the number of shapes of an emotion of nonzero fraction is
\* density x fraction rounded down to an integer, and 1 when that is 0.
Thm_C8 ==
    (Shown /\ page.hits > 0) =>
        /\ Len(Layers) = Len(EMOTIONS)
        /\ \A i \in 1..Len(Layers) :
               LET f == FractionOf(EMOTIONS[i])
                   c == Layers[i].count
               IN  f # Zero =>
                       /\ Layers[i].frac = f
                       /\ IF density * f[1] < f[2]
                          THEN c = 1
                          ELSE /\ c * f[2] <= density * f[1]
                               /\ density * f[1] < (c + 1) * f[2]

\* C8, with the count rounded: the number of shapes is density x fraction rounded to
\* the nearest integer (a tie going either way), and 1 when that is 0.
Cex_C8 ==
    (Shown /\ page.hits > 0) =>
        \A i \in 1..Len(Layers) :
            LET f == FractionOf(EMOTIONS[i])
                c == Layers[i].count
            IN  f # Zero =>
                    \E k \in 0..density :
                        /\ 2 * k * f[2] - f[2] <= 2 * density * f[1]
                        /\ 2 * density * f[1] <= 2 * k * f[2] + f[2]
                        /\ c = Max(1, k)

Wit_C8 ==
    /\ Shown
    /\ text = "happy sad"
    /\ density = 350
    /\ Layers[1].count = 116

\* C9, with the count the code computes: with all scores zero the number of neutral circles is
\* 80 up to density 320 and a quarter of the density, rounded down, above;
\* it depends on the density and on no other argument.
Thm_C9 ==
    (Shown /\ page.hits = 0) =>
        LET c == Layers[1].count
        IN  /\ density <= 320 => c = 80
            /\ density > 320 => (4 * c <= density /\ density < 4 * c + 4)

\* C9, with the count fixed: with all scores zero the number of neutral circles is
\* the one any other density would give.
Cex_C9 ==
    (Shown /\ page.hits = 0) =>
        \A d \in Densities : Layers[1].count = NeutralCount(d)

Wit_C9 ==
    /\ Shown
    /\ page.hits = 0
    /\ density = DensityMax
    /\ Layers[1].count = 375

\* The kind of shape the claim gives each emotion.
KindOfEmotion ==
    [ joy     |-> "ellipse", trust   |-> "ellipse", surprise |-> "ellipse",
      anger   |-> "polygon", disgust |-> "polygon",
      sadness |-> "line",    fear    |-> "line" ]

\* C10: in the non-neutral path every shape has the kind of its emotion:
\* joy, trust and surprise a filled circle, anger and disgust a filled
\* triangle of 3 points, sadness and fear a stroke; each of the 7 emotions
\* has a kind.
Thm_C10 ==
    (Shown /\ page.hits > 0) =>
        /\ Len(Layers) = Len(EMOTIONS)
        /\ \A i \in 1..Len(Layers) :
               /\ Layers[i].loop = "emotion"
               /\ Layers[i].emotion = EMOTIONS[i]
               /\ \A j \in DistinctPasses(Layers[i]) :
                      LET c == ShapeOf(page.img, Layers[i], j)
                      IN  /\ c.op = KindOfEmotion[EMOTIONS[i]]
                          /\ c.op = "polygon" => Len(c.angles) = 3
                          /\ c.op = "line" => c.width >= 1
                          /\ Len(c.fill) = 4

Wit_C10 ==
    /\ Shown
    /\ text = demo_text
    /\ page.hits = 12
    /\ density = DensityDefault

====
